---- MODULE Spec2Model ----
(***************************************************************************)
(* Model of server/cpp/src/monte_carlo.cpp: the multi-threaded Monte Carlo *)
(* Black-Scholes engine monte_carlo_black_scholes_mt, its worker lambda    *)
(* thread_func, and the single-run path of main that calls it and reports  *)
(* the result.                                                             *)
(*                                                                         *)
(* double is modelled as a binary floating-point format of reduced width:  *)
(* a finite value is an integer number of units of 2^-FracBits that has at *)
(* most MantBits significant bits; every arithmetic operation rounds its   *)
(* exact result to the nearest such value, ties to even, as IEEE-754 does  *)
(* with 53 bits.  NaN and the infinities are separate values.              *)
(***************************************************************************)
EXTENDS Integers, Sequences, FiniteSets, TLC

\* ------------------------------------------------------------------ bounds
MaxTrials == 3      \* numTrials is drawn from -1 .. MaxTrials and UNROLL + 2
MaxThreads == 2     \* the requested num_threads is drawn from -1 .. MaxThreads
MaxHW == 1          \* hardware_concurrency() returns a value in 0 .. MaxHW
MaxClock == 1       \* the clock read by the workers advances at most to MaxClock
MantBits == 4       \* significant bits of the reduced-width double
FracBits == 4       \* 1.0 is 2^FracBits units
MaxAggSlots == 3    \* SpecAgg: the combining loop is fed 1 .. MaxAggSlots results
MaxSynthTrials == 2 \* SpecAgg: each fed result is a worker's over 0 .. MaxSynthTrials trials
MaxFixedTrials == 4 \* SpecFixed: 1 .. MaxFixedTrials trials with every sequence of fixed payoffs
MaxFixedThreads == 2 \* SpecFixed: the requested num_threads is drawn from 1 .. MaxFixedThreads
IntBits == 16       \* width of int in the model

\* ------------------------------------------------------- program constants
RANDOM_BATCH_SIZE == 4096
UNROLL == 8
FALLBACK_THREADS == 4

\* --------------------------------------------------------- double arithmetic
\* The element of the singleton S. The operations on doubles bind their operands
\* through it: an operand is then evaluated once, however often it is used.
Once(S) == CHOOSE r \in S : TRUE

RECURSIVE Pow2(_)
Pow2(n) == IF n <= 0 THEN 1 ELSE 2 * Pow2(n - 1)

RECURSIVE BitLen(_)
BitLen(q) == IF q <= 0 THEN 0 ELSE 1 + BitLen(q \div 2)

Unit == Pow2(FracBits)

\* The magnitude a \div d (a >= 0, d > 0) rounded to the nearest value with at
\* most MantBits significant bits, ties to even.
RoundMag(a, d) ==
    LET q   == a \div d
        e   == IF BitLen(q) > MantBits THEN BitLen(q) - MantBits ELSE 0
        s   == Pow2(e)
        m   == a \div (d * s)
        rem == a - m * d * s
        up  == 2 * rem > d * s \/ (2 * rem = d * s /\ m % 2 = 1)
    IN  (IF up THEN m + 1 ELSE m) * s

\* The rational n / d (d > 0), in units, rounded to a double.
RN(n, d) == IF n < 0 THEN -RoundMag(-n, d) ELSE RoundMag(n, d)

Fin(v) == [c |-> "fin", v |-> v]
NaN == [c |-> "nan", v |-> 0]
Inf(sgn) == [c |-> "inf", v |-> sgn]
Unset == [c |-> "unset", v |-> 0]

IsNaN(x) == x.c = "nan"
IsFin(x) == x.c = "fin"
IsInf(x) == x.c = "inf"
Sign(x) == IF x.v < 0 THEN -1 ELSE IF x.v > 0 THEN 1 ELSE 0

\* int -> double conversion
FromInt(n) == Fin(RN(n * Unit, 1))

FAdd(a, b) ==
    Once({
        IF IsNaN(x) \/ IsNaN(y) THEN NaN
        ELSE IF IsInf(x) /\ IsInf(y) THEN (IF x.v = y.v THEN x ELSE NaN)
        ELSE IF IsInf(x) THEN x
        ELSE IF IsInf(y) THEN y
        ELSE Fin(RN(x.v + y.v, 1))
        : x \in {a}, y \in {b}})

FNeg(a) ==
    Once({
        IF IsNaN(x) THEN NaN ELSE [x EXCEPT !.v = -x.v]
        : x \in {a}})

FSub(a, b) == FAdd(a, FNeg(b))

FMul(a, b) ==
    Once({
        IF IsNaN(x) \/ IsNaN(y) THEN NaN
        ELSE IF IsInf(x) \/ IsInf(y)
             THEN (IF Sign(x) * Sign(y) = 0 THEN NaN ELSE Inf(Sign(x) * Sign(y)))
        ELSE Fin(RN(x.v * y.v, Unit))
        : x \in {a}, y \in {b}})

FDiv(a, b) ==
    Once({
        IF IsNaN(x) \/ IsNaN(y) THEN NaN
        ELSE IF IsInf(x) THEN (IF IsInf(y) THEN NaN
                               ELSE Inf(IF y.v < 0 THEN -x.v ELSE x.v))
        ELSE IF IsInf(y) THEN Fin(0)
        ELSE IF y.v = 0 THEN (IF x.v = 0 THEN NaN ELSE Inf(Sign(x)))
        ELSE IF y.v < 0 THEN Fin(RN(-(x.v * Unit), -y.v))
        ELSE Fin(RN(x.v * Unit, y.v))
        : x \in {a}, y \in {b}})

\* floor of the square root of n >= 0
ISqrt(n) == CHOOSE r \in 0 .. n : r * r <= n /\ (r + 1) * (r + 1) > n

\* sqrt(x units) = sqrt(x * Unit) units, correctly rounded: the candidates are
\* the two doubles around the exact root.
SqrtMag(x) ==
    Once({
        LET e  == IF BitLen(f) > MantBits THEN BitLen(f) - MantBits ELSE 0
            s  == Pow2(e)
            dn == (f \div s) * s
            hi == dn + s
        IN  IF dn * dn = n THEN dn
            ELSE IF 4 * n > (dn + hi) * (dn + hi) THEN hi
            ELSE IF 4 * n < (dn + hi) * (dn + hi) THEN dn
            ELSE IF (dn \div s) % 2 = 0 THEN dn ELSE hi
        : n \in {x * Unit}, f \in {ISqrt(x * Unit)}})

FSqrt(a) ==
    Once({
        IF IsNaN(x) THEN NaN
        ELSE IF IsInf(x) THEN (IF x.v > 0 THEN x ELSE NaN)
        ELSE IF x.v < 0 THEN NaN
        ELSE Fin(SqrtMag(x.v))
        : x \in {a}})

FGt(a, b) ==
    Once({
        IF IsNaN(x) \/ IsNaN(y) THEN FALSE
        ELSE IF IsInf(x) THEN x.v > 0 /\ ~(IsInf(y) /\ y.v > 0)
        ELSE IF IsInf(y) THEN y.v < 0
        ELSE x.v > y.v
        : x \in {a}, y \in {b}})

FLe(a, b) == ~IsNaN(a) /\ ~IsNaN(b) /\ ~FGt(a, b)

\* 1.96, the literal of the confidence interval
Z95 == Fin(RN(196 * Unit, 100))

Min(a, b) == IF a < b THEN a ELSE b

\* ------------------------------------------------------------- input sets
\* S0, K, sigma and T as the caller may pass them: negative, zero, positive.
S0Values == {Fin(-Unit), Fin(0), Fin(Unit)}
KValues == {Fin(0), Fin(Unit)}
SigmaValues == {Fin(0), Fin(Unit)}
TValues == {Fin(0), Fin(Unit)}
\* numTrials as the caller may pass it: invalid, small, and one count that takes a
\* single worker more than one pass of UNROLL trials.
TrialValues == (-1 .. MaxTrials) \cup {UNROLL + 2}
\* exp(-r * T) for the caller's r: some positive double.
DiscountValues == {Fin(Unit - Unit \div 4)}
\* S0 * exp(drift + volatility * z) for a drawn z: some positive double.
STValues == {Fin(1), Fin(Unit + Unit \div 4)}

VARIABLES
    mpc,                \* the caller's position: "start" before main's own checks
                        \* (callers other than main enter the engine from here),
                        \* "call" after them, then "failed", "returned" or "exit"
    S0, K, sigma, T, isCall, numTrials,
    req_threads,        \* the caller's `threads`, passed by value as num_threads
    draws,              \* the terminal price of each trial index when the payoffs
                        \* are held fixed (trial j has draws[j % Len + 1]); <<>> when
                        \* every trial draws afresh from its worker's generator
    threadsUsed,        \* the "threadsUsed" field main prints
    error,              \* the exception thrown, "none" if none
    pc,                 \* position of monte_carlo_black_scholes_mt
    hardware_concurrency,   \* what hardware_concurrency() returned, -1 while not called
    num_threads, trials_per_thread, remaining_trials, discount,
    thread_results,     \* slot k of the vector is thread_results[k + 1]
    threads,            \* thread i of the vector, with its lambda's locals, is threads[i + 1]
    li, start_trial,    \* the launch loop's i and start_trial
    ji,                 \* number of threads joined
    ci, total_sum, total_sum_squared, total_count,
    mean, variance, std_dev,
    price, lower, upper,
    clock,              \* high_resolution_clock, in ticks
    writes              \* history: writes[k + 1] lists the thread ids that wrote slot k

argVars == <<S0, K, sigma, T, isCall, numTrials, req_threads, draws>>
setupVars == <<hardware_concurrency, num_threads, trials_per_thread, remaining_trials, discount>>
launchVars == <<li, start_trial>>
aggVars == <<ci, total_sum, total_sum_squared, total_count>>
statVars == <<mean, variance, std_dev>>
outVars == <<price, lower, upper>>
vars == <<argVars, mpc, threadsUsed, error, pc, setupVars, thread_results, threads,
          launchVars, ji, aggVars, statVars, outVars, clock, writes>>

ZeroResult == [sum |-> Fin(0), sum_squared |-> Fin(0), count |-> 0]

\* ------------------------------------------------------- pure computations
calculate_payoff(ST, k, call) ==
    LET call_payoff == FSub(ST, k)
        put_payoff  == FSub(k, ST)
        call_result == IF FGt(call_payoff, Fin(0)) THEN call_payoff ELSE Fin(0)
        put_result  == IF FGt(put_payoff, Fin(0)) THEN put_payoff ELSE Fin(0)
    IN  IF call THEN call_result ELSE put_result

\* mutant: the check of T lets zero through
ValidArgs_TZero(s0, k, sg, t, n) ==
    /\ ~FLe(s0, Fin(0))
    /\ ~FLe(k, Fin(0))
    /\ ~FLe(sg, Fin(0))
    /\ ~(IsFin(t) /\ t.v < 0)
    /\ ~(n <= 0)

\* The five checks at the head of the engine (and of main): TRUE when none throws.
ValidArgs(s0, k, sg, t, n) ==
    /\ ~FLe(s0, Fin(0))
    /\ ~FLe(k, Fin(0))
    /\ ~FLe(sg, Fin(0))
    /\ ~FLe(t, Fin(0))
    /\ ~(n <= 0)

\* mutant: the fallback is a single worker
AutoThreads_FallbackOne(n, hw) ==
    IF n <= 0 THEN (IF hw = 0 THEN 1 ELSE hw) ELSE n

\* num_threads after "if (num_threads <= 0) { ... }", hw being hardware_concurrency()
AutoThreads(n, hw) ==
    IF n <= 0 THEN (IF hw = 0 THEN FALLBACK_THREADS ELSE hw) ELSE n

\* mutant: the clamp to numTrials is missing
ClampThreads_None(n, trials) == n

\* num_threads = std::min(num_threads, numTrials)
ClampThreads(n, trials) == Min(n, trials)

\* mutant: one worker too many gets an extra trial
ThreadTrials_OffByOne(i, tpt, rem) == tpt + (IF i <= rem THEN 1 ELSE 0)

\* mutant: the extra trials go to the last workers
ThreadTrials_ExtraToLast(i, tpt, rem) == tpt + (IF i >= num_threads - rem THEN 1 ELSE 0)

\* thread_trials of launch-loop iteration i
ThreadTrials(i, tpt, rem) == tpt + (IF i < rem THEN 1 ELSE 0)

\* mutant: every worker stores into slot 0
SlotOf_Zero(thread_id) == 0

\* the slot thread_func stores into
SlotOf(thread_id) == thread_id

\* mutant: the join does not wait
JoinReturns_NoWait(t) == TRUE

\* thread.join() returns once the thread's function has returned
JoinReturns(t) == t.pc = "done"

\* mutant: the pass runs one trial past end_trial
BatchEnd_OnePast(i, end_trial) == Min(i + UNROLL, end_trial + 1)

\* mutant: the pass always takes UNROLL trials
BatchEnd_Full(i, end_trial) == i + UNROLL

\* mutant: the pass ends where it starts
BatchEnd_NoProgress(i, end_trial) == Min(i, end_trial)

\* batch_end of one pass of the worker's while loop
BatchEnd(i, end_trial) == Min(i + UNROLL, end_trial)

\* The largest int. The program's int has 32 bits; the model's has IntBits, which
\* keeps what matters here: INT_MAX + 1 is a multiple of UNROLL and RANDOM_BATCH_SIZE.
INT_MAX == Pow2(IntBits - 1) - 1
\* x reduced to the int it wraps to (two's complement)
WrapInt(x) == ((x + INT_MAX + 1) % (2 * (INT_MAX + 1))) - (INT_MAX + 1)

\* batch_end as the build may compute it. When i + 8 exceeds INT_MAX the signed
\* addition is undefined: the value wraps (the addition as the machine does it)
\* or the pass runs as if the sum were exact (the compiler assuming no overflow).
BatchEndOutcomes(i, end_trial) ==
    IF i + UNROLL > INT_MAX
    THEN {Min(WrapInt(i + UNROLL), end_trial), BatchEnd(i, end_trial)}
    ELSE {BatchEnd(i, end_trial)}

\* the seed of the worker's generator
SeedOf(now, thread_id) == now + thread_id

\* mutant: the buffer index stays where it is
RECURSIVE RunTrials_NoAdvance(_, _, _, _)
RunTrials_NoAdvance(t, sts, k, call) ==
    IF sts = <<>> THEN t
    ELSE LET payoff == calculate_payoff(Head(sts), k, call)
         IN  RunTrials_NoAdvance([t EXCEPT !.local_sum = FAdd(@, payoff),
                                           !.local_sum_squared = FAdd(@, FMul(payoff, payoff)),
                                           !.local_count = @ + 1,
                                           !.i = @ + 1],
                                 Tail(sts), k, call)

\* the inner for loop over sts, the terminal prices of the trials of one batch
RECURSIVE RunTrials(_, _, _, _)
RunTrials(t, sts, k, call) ==
    IF sts = <<>> THEN t
    ELSE LET payoff == calculate_payoff(Head(sts), k, call)
         IN  RunTrials([t EXCEPT !.local_sum = FAdd(@, payoff),
                                 !.local_sum_squared = FAdd(@, FMul(payoff, payoff)),
                                 !.local_count = @ + 1,
                                 !.i = @ + 1,
                                 !.random_index = @ + 1],
                       Tail(sts), k, call)

\* mutant: the sums are overwritten instead of accumulated
AddResult_Overwrite(tot, result) ==
    [sum |-> result.sum, sum_squared |-> result.sum_squared,
     count |-> tot.count + result.count]

\* the body of the combining loop, lines 292-294
AddResult(tot, result) ==
    [sum |-> FAdd(tot.sum, result.sum),
     sum_squared |-> FAdd(tot.sum_squared, result.sum_squared),
     count |-> tot.count + result.count]

\* lines 297-311: mean, variance, standard deviation, price and interval
Estimate(tot, disc) ==
    LET cnt == FromInt(tot.count)
        m == FDiv(tot.sum, cnt)
        discounted_mean == FMul(m, disc)
        v == FSub(FDiv(tot.sum_squared, cnt), FMul(m, m))
        sd == FSqrt(v)
        margin_of_error == FMul(FMul(Z95, FDiv(sd, FSqrt(cnt))), disc)
    IN  [mean |-> m, variance |-> v, std_dev |-> sd,
         price |-> discounted_mean,
         lower |-> FSub(discounted_mean, margin_of_error),
         upper |-> FAdd(discounted_mean, margin_of_error)]

\* what main prints as threadsUsed
ReportedThreads(threads_arg, spawned) == threads_arg

\* ------------------------------------------------------------------- Init
\* everything but the arguments, before the call
Start ==
    /\ mpc = "start"
    /\ threadsUsed = "unset"
    /\ error = "none"
    /\ pc = "entry"
    /\ hardware_concurrency = -1
    /\ num_threads = 0 /\ trials_per_thread = 0 /\ remaining_trials = 0
    /\ discount = Unset
    /\ thread_results = <<>>
    /\ threads = <<>>
    /\ li = 0 /\ start_trial = 0 /\ ji = 0
    /\ ci = 0 /\ total_sum = Unset /\ total_sum_squared = Unset /\ total_count = 0
    /\ mean = Unset /\ variance = Unset /\ std_dev = Unset
    /\ price = Unset /\ lower = Unset /\ upper = Unset
    /\ clock = 0
    /\ writes = <<>>

Init ==
    /\ S0 \in S0Values
    /\ K \in KValues
    /\ sigma \in SigmaValues
    /\ T \in TValues
    /\ isCall \in BOOLEAN
    /\ numTrials \in TrialValues
    /\ req_threads \in -1 .. MaxThreads
    /\ draws = <<>>
    /\ Start

\* ---------------------------------------------------------------- caller
\* main, lines 408-428: the checks before the call
MainValidate ==
    /\ mpc = "start"
    /\ IF ValidArgs(S0, K, sigma, T, numTrials)
       THEN mpc' = "call" /\ error' = error
       ELSE mpc' = "failed" /\ error' = "invalid_argument"
    /\ UNCHANGED <<argVars, threadsUsed, pc, setupVars, thread_results, threads,
                   launchVars, ji, aggVars, statVars, outVars, clock, writes>>

\* main, lines 443-446: the result is printed
MainReport ==
    /\ mpc = "returned"
    /\ threadsUsed' = ReportedThreads(req_threads, Len(threads))
    /\ mpc' = "exit"
    /\ UNCHANGED <<argVars, error, pc, setupVars, thread_results, threads,
                   launchVars, ji, aggVars, statVars, outVars, clock, writes>>

\* ---------------------------------------------------------------- engine
\* lines 157-177
Validate ==
    /\ mpc \in {"start", "call"} /\ pc = "entry"
    /\ IF ValidArgs(S0, K, sigma, T, numTrials)
       THEN pc' = "setup" /\ UNCHANGED <<mpc, error>>
       ELSE pc' = "thrown" /\ mpc' = "failed" /\ error' = "invalid_argument"
    /\ UNCHANGED <<argVars, threadsUsed, setupVars, thread_results, threads,
                   launchVars, ji, aggVars, statVars, outVars, clock, writes>>

\* lines 179-212 and 270: thread count, per-thread share, constants, the vectors
Setup ==
    /\ pc = "setup"
    /\ \E h \in (IF req_threads <= 0 THEN 0 .. MaxHW ELSE {-1}) :
         LET n == ClampThreads(AutoThreads(req_threads, h), numTrials)
         IN  /\ hardware_concurrency' = h
             /\ num_threads' = n
             /\ trials_per_thread' = numTrials \div n
             /\ remaining_trials' = numTrials % n
             /\ thread_results' = [k \in 1 .. n |-> ZeroResult]
             /\ writes' = [k \in 1 .. n |-> <<>>]
    /\ discount' \in DiscountValues
    /\ start_trial' = 0 /\ li' = 0
    /\ pc' = "launch"
    /\ UNCHANGED <<argVars, mpc, threadsUsed, error, threads, ji, aggVars,
                   statVars, outVars, clock>>

\* lines 271-277: one pass of the launch loop, or its exit
Launch ==
    /\ pc = "launch"
    /\ IF li < num_threads
       THEN LET thread_trials == ThreadTrials(li, trials_per_thread, remaining_trials)
                end_trial == start_trial + thread_trials
            IN  /\ threads' = Append(threads,
                       [pc |-> "start", thread_id |-> li,
                        start_trial |-> start_trial, end_trial |-> end_trial,
                        i |-> 0, random_index |-> 0, seed |-> 0,
                        local_sum |-> Unset, local_sum_squared |-> Unset,
                        local_count |-> 0])
                /\ start_trial' = end_trial
                /\ li' = li + 1
                /\ pc' = pc
       ELSE /\ pc' = "join"
            /\ UNCHANGED <<threads, launchVars>>
    /\ UNCHANGED <<argVars, mpc, threadsUsed, error, setupVars, thread_results, ji,
                   aggVars, statVars, outVars, clock, writes>>

\* lines 279-288: one join, or the loop's exit and the totals' initialisation
Join ==
    /\ pc = "join"
    /\ IF ji < Len(threads)
       THEN /\ JoinReturns(threads[ji + 1])
            /\ ji' = ji + 1
            /\ UNCHANGED <<pc, aggVars>>
       ELSE /\ pc' = "combine"
            /\ total_sum' = Fin(0) /\ total_sum_squared' = Fin(0)
            /\ total_count' = 0 /\ ci' = 0
            /\ ji' = ji
    /\ UNCHANGED <<argVars, mpc, threadsUsed, error, setupVars, thread_results,
                   threads, launchVars, statVars, outVars, clock, writes>>

\* lines 290-295: one pass of the combining loop, or its exit
Combine ==
    /\ pc = "combine"
    /\ IF ci < Len(thread_results)
       THEN LET result == thread_results[ci + 1]
                tot == AddResult([sum |-> total_sum, sum_squared |-> total_sum_squared,
                                  count |-> total_count], result)
            IN  /\ total_sum' = tot.sum
                /\ total_sum_squared' = tot.sum_squared
                /\ total_count' = tot.count
                /\ ci' = ci + 1
                /\ pc' = pc
       ELSE pc' = "finish" /\ UNCHANGED aggVars
    /\ UNCHANGED <<argVars, mpc, threadsUsed, error, setupVars, thread_results,
                   threads, launchVars, ji, statVars, outVars, clock, writes>>

\* lines 297-311: mean, variance, interval, outputs; the engine returns
Finish ==
    /\ pc = "finish"
    /\ LET e == Estimate([sum |-> total_sum, sum_squared |-> total_sum_squared,
                           count |-> total_count], discount)
       IN  /\ mean' = e.mean /\ variance' = e.variance /\ std_dev' = e.std_dev
           /\ price' = e.price /\ lower' = e.lower /\ upper' = e.upper
    /\ pc' = "done"
    /\ mpc' = "returned"
    /\ UNCHANGED <<argVars, threadsUsed, error, setupVars, thread_results, threads,
                   launchVars, ji, aggVars, clock, writes>>

\* --------------------------------------------------------------- workers
\* the terminal prices of the trials first .. batch_end - 1 of one pass
BatchDraws(first, batch_end) ==
    IF draws = <<>>
    THEN [1 .. (batch_end - first) -> STValues]
    ELSE {[j \in 1 .. (batch_end - first) |-> draws[((first + j - 1) % Len(draws)) + 1]]}

\* the clock the workers read advances
Tick ==
    /\ clock < MaxClock
    /\ \E k \in 1 .. Len(threads) : threads[k].pc = "start"
    /\ clock' = clock + 1
    /\ UNCHANGED <<argVars, mpc, threadsUsed, error, pc, setupVars, thread_results,
                   threads, launchVars, ji, aggVars, statVars, outVars, writes>>

\* thread_func, lines 217-232: accumulators, generator, buffer index, i
WorkerStart(k) ==
    /\ threads[k].pc = "start"
    /\ LET t == threads[k]
       IN  threads' = [threads EXCEPT ![k] =
               [t EXCEPT !.pc = "loop",
                         !.local_sum = Fin(0), !.local_sum_squared = Fin(0),
                         !.local_count = 0,
                         !.seed = SeedOf(clock, t.thread_id),
                         !.random_index = RANDOM_BATCH_SIZE,
                         !.i = t.start_trial]]
    /\ UNCHANGED <<argVars, mpc, threadsUsed, error, pc, setupVars, thread_results,
                   launchVars, ji, aggVars, statVars, outVars, clock, writes>>

\* thread_func, lines 233-263: one pass of the while loop
WorkerBatch(k) ==
    /\ threads[k].pc = "loop"
    /\ threads[k].i < threads[k].end_trial
    /\ LET t0 == threads[k]
           t1 == IF t0.random_index >= RANDOM_BATCH_SIZE
                 THEN [t0 EXCEPT !.random_index = 0] ELSE t0
       IN  \E batch_end \in BatchEndOutcomes(t1.i, t1.end_trial) :
             \E sts \in BatchDraws(t1.i, batch_end) :
               threads' = [threads EXCEPT ![k] = RunTrials(t1, sts, K, isCall)]
    /\ UNCHANGED <<argVars, mpc, threadsUsed, error, pc, setupVars, thread_results,
                   launchVars, ji, aggVars, statVars, outVars, clock, writes>>

\* thread_func, lines 265-267: the loop has ended; the result is stored
WorkerStore(k) ==
    /\ threads[k].pc = "loop"
    /\ ~(threads[k].i < threads[k].end_trial)
    /\ LET t == threads[k]
           slot == SlotOf(t.thread_id) + 1
       IN  /\ thread_results' = [thread_results EXCEPT ![slot] =
                   [sum |-> t.local_sum, sum_squared |-> t.local_sum_squared,
                    count |-> t.local_count]]
           /\ writes' = [writes EXCEPT ![slot] = Append(@, t.thread_id)]
    /\ threads' = [threads EXCEPT ![k].pc = "done"]
    /\ UNCHANGED <<argVars, mpc, threadsUsed, error, pc, setupVars, launchVars, ji,
                   aggVars, statVars, outVars, clock>>


\* One call of the engine, with the clock standing still while the workers start
\* (the seeds are then the thread ids; the draws do not depend on the seed here).
Next ==
    \/ MainValidate
    \/ MainReport
    \/ Validate
    \/ Setup
    \/ Launch
    \/ Join
    \/ Combine
    \/ Finish
    \/ \E k \in 1 .. Len(threads) : WorkerStart(k)
    \/ \E k \in 1 .. Len(threads) : WorkerBatch(k)
    \/ \E k \in 1 .. Len(threads) : WorkerStore(k)

Spec == Init /\ [][Next]_vars

\* The steps of the calling thread and of worker thread k.
MainThread ==
    MainValidate \/ MainReport \/ Validate \/ Setup \/ Launch \/ Join \/ Combine \/ Finish
Worker(k) ==
    k <= Len(threads) /\ (WorkerStart(k) \/ WorkerBatch(k) \/ WorkerStore(k))

\* A thread that can run is eventually run: the calling thread and the
\* std::threads are scheduled by the operating system, which does not stop them
\* all for ever. (Weaker than fairness to each thread, and enough.)
Fairness == WF_vars(MainThread \/ \E k \in 1 .. Len(threads) : Worker(k))

\* calls that pass the checks, with the small trial counts: one or two workers,
\* or the workers of the fallback count clamped to numTrials
InitLive ==
    /\ Init
    /\ ValidArgs(S0, K, sigma, T, numTrials)
    /\ numTrials <= MaxTrials

SpecLive == InitLive /\ [][Next]_vars /\ Fairness

\* the clock also advances while workers start
NextClock == Next \/ Tick

\* calls that pass the checks, with the small trial counts
InitClock ==
    /\ Init
    /\ ValidArgs(S0, K, sigma, T, numTrials)
    /\ numTrials <= MaxTrials

SpecClock == InitClock /\ [][NextClock]_vars

\* ------------------------------------------- calls with the payoffs held fixed
\* Terminal prices below the strike: with a put, two different positive payoffs.
FixedSTValues == {Fin(1), Fin(Unit \div 2 + 1)}
\* Trial counts that take one worker up to, exactly to, and past the unroll
\* width and the buffer size, and past the buffer size by a partial group.
LongTrialValues ==
    {UNROLL - 1, UNROLL, UNROLL + 1,
     RANDOM_BATCH_SIZE - 1, RANDOM_BATCH_SIZE,
     RANDOM_BATCH_SIZE + UNROLL + 3, 2 * RANDOM_BATCH_SIZE + 1}
\* Trial counts that give several workers ranges of different lengths around UNROLL.
SplitTrialValues == {2 * UNROLL + 1, 3 * UNROLL}
\* Prices repeating with period 1 or 2 over the trial indices.
PeriodicDraws == {<<Fin(1)>>, <<Fin(1), Fin(Unit \div 2 + 1)>>}

InitFixed ==
    /\ S0 = Fin(Unit) /\ K = Fin(Unit) /\ sigma = Fin(Unit) /\ T = Fin(Unit)
    /\ isCall = FALSE
    /\ \/ /\ numTrials \in 1 .. MaxFixedTrials
          /\ req_threads \in 1 .. MaxFixedThreads
          /\ draws \in [1 .. numTrials -> FixedSTValues]
       \/ /\ numTrials \in SplitTrialValues
          /\ req_threads \in 1 .. MaxFixedThreads
          /\ draws \in PeriodicDraws
       \/ /\ numTrials \in LongTrialValues
          /\ req_threads = 1
          /\ draws \in PeriodicDraws
    /\ Start

SpecFixed == InitFixed /\ [][Next]_vars

\* ------------------------------------------- calls with numTrials near INT_MAX
\* The largest trial counts an int holds, run by one worker.
IntTrialValues == {INT_MAX - UNROLL, INT_MAX - UNROLL + 1, INT_MAX}

InitInt ==
    /\ S0 = Fin(Unit) /\ K = Fin(Unit) /\ sigma = Fin(Unit) /\ T = Fin(Unit)
    /\ isCall = FALSE
    /\ numTrials \in IntTrialValues
    /\ req_threads = 1
    /\ draws = <<Fin(1)>>
    /\ Start

SpecInt == InitInt /\ [][Next]_vars

\* ------------------------------------------- the combining step on its own
\* The result a worker publishes for the terminal prices sts.
ResultOf(sts, k, call) ==
    LET t == RunTrials([local_sum |-> Fin(0), local_sum_squared |-> Fin(0),
                        local_count |-> 0, i |-> 0, random_index |-> 0],
                       sts, k, call)
    IN  [sum |-> t.local_sum, sum_squared |-> t.local_sum_squared,
         count |-> t.local_count]

\* Slot contents fed to the combining loop: what a worker stores for 1 ..
\* MaxSynthTrials trials, and the value a slot is constructed with (no trial).
SynthResults(k, call) ==
    {ResultOf(sts, k, call) :
        sts \in UNION {[1 .. n -> STValues] : n \in 0 .. MaxSynthTrials}}

RECURSIVE SumCounts(_)
SumCounts(rs) == IF rs = <<>> THEN 0 ELSE Head(rs).count + SumCounts(Tail(rs))

\* The engine at line 285, all threads joined, with given slot contents.
InitAgg ==
    /\ mpc = "call"
    /\ S0 = Fin(Unit) /\ K = Fin(Unit) /\ sigma = Fin(Unit) /\ T = Fin(Unit)
    /\ isCall \in BOOLEAN
    /\ thread_results \in
         UNION {[1 .. n -> SynthResults(K, isCall)] : n \in 1 .. MaxAggSlots}
    /\ numTrials = SumCounts(thread_results)
    /\ num_threads = Len(thread_results)
    /\ req_threads = num_threads
    /\ draws = <<>>
    /\ hardware_concurrency = -1
    /\ threadsUsed = "unset"
    /\ error = "none"
    /\ pc = "combine"
    /\ trials_per_thread = 0 /\ remaining_trials = 0
    /\ discount \in DiscountValues
    /\ threads = <<>>
    /\ li = num_threads /\ start_trial = numTrials /\ ji = num_threads
    /\ ci = 0 /\ total_sum = Fin(0) /\ total_sum_squared = Fin(0) /\ total_count = 0
    /\ mean = Unset /\ variance = Unset /\ std_dev = Unset
    /\ price = Unset /\ lower = Unset /\ upper = Unset
    /\ clock = 0
    /\ writes = [k \in 1 .. num_threads |-> <<k - 1>>]

NextAgg == Combine \/ Finish

SpecAgg == InitAgg /\ [][NextAgg]_vars

\* ------------------------------------------------------------------ claims
Launched == pc \in {"join", "combine", "finish", "done"}
Joined == pc \in {"combine", "finish", "done"}
RangeLen(t) == t.end_trial - t.start_trial
Owners(trial) == {k \in 1 .. Len(threads) :
                    threads[k].start_trial <= trial /\ trial < threads[k].end_trial}

\* C1: the ranges handed to the workers are contiguous from 0, pairwise disjoint,
\* differ in length by at most 1, and once the launch loop has ended they cover
\* [0, numTrials) exactly: every trial index has exactly one owner.
C1_RangesPartition ==
    /\ \A k \in 1 .. Len(threads) :
         /\ threads[k].start_trial = (IF k = 1 THEN 0 ELSE threads[k - 1].end_trial)
         /\ threads[k].start_trial <= threads[k].end_trial
         /\ threads[k].end_trial <= numTrials
    /\ \A j, k \in 1 .. Len(threads) :
         /\ j < k => threads[j].end_trial <= threads[k].start_trial
         /\ RangeLen(threads[j]) - RangeLen(threads[k]) <= 1
    /\ Launched =>
         /\ Len(threads) >= 1
         /\ threads[Len(threads)].end_trial = numTrials
         /\ \A trial \in 0 .. numTrials - 1 : Cardinality(Owners(trial)) = 1

\* C1 witness: four workers launched over ten trials, an uneven split
C1_Witness ==
    /\ Launched /\ Len(threads) = 4 /\ numTrials = UNROLL + 2
    /\ RangeLen(threads[1]) = 3 /\ RangeLen(threads[4]) = 2

\* C2: while any worker has not finished, the engine has not entered the
\* combining loop, has read no slot and holds no aggregate or output; the slot
\* the combining loop reads next belongs to a finished, joined worker.
C2_AggregateAfterJoin ==
    /\ Joined => /\ ji = Len(threads)
                 /\ \A k \in 1 .. Len(threads) : threads[k].pc = "done"
    /\ (\E k \in 1 .. Len(threads) : threads[k].pc # "done") =>
         /\ ci = 0 /\ total_count = 0
         /\ total_sum = Unset /\ total_sum_squared = Unset
         /\ mean = Unset /\ price = Unset /\ lower = Unset /\ upper = Unset
    /\ \A k \in 1 .. ji : threads[k].pc = "done"

\* C2 witness: the combining loop has read the slots of three workers
C2_Witness == pc = "combine" /\ Len(threads) = 3 /\ ci = 3

C3_SlotDiscipline ==
    /\ Len(writes) = Len(thread_results)
    /\ \A k \in 1 .. Len(writes) :
         /\ Len(writes[k]) <= 1
         /\ \A n \in 1 .. Len(writes[k]) : writes[k][n] = k - 1
    /\ \A k \in 1 .. Len(threads) :
         (threads[k].pc = "done") <=> (writes[k] = <<k - 1>>)
    /\ (pc = "combine" /\ ci < Len(thread_results)) => threads[ci + 1].pc = "done"

\* a step of a worker: the thread vector keeps its length and some thread moves
WorkerStep == Len(threads') = Len(threads) /\ threads' # threads

C3_WorkersWriteOwnSlotOnly ==
    WorkerStep =>
        /\ UNCHANGED <<argVars, mpc, threadsUsed, error, pc, setupVars, launchVars,
                       ji, aggVars, statVars, outVars>>
        /\ \A k \in 1 .. Len(threads) :
             threads'[k] = threads[k] => thread_results'[k] = thread_results[k]

\* C3: every slot is written at most once, only by the worker whose thread_id
\* indexes it, and exactly once by the time that worker has finished; the engine
\* reads a slot only when its writer has finished; and a step of a worker changes
\* no shared variable other than its own slot.
C3_WriteOnceByOwner == []C3_SlotDiscipline /\ [][C3_WorkersWriteOwnSlotOnly]_vars

\* C3 witness: three workers, each slot written once by its own worker
C3_Witness ==
    /\ Len(writes) = 3
    /\ \A k \in 1 .. 3 : writes[k] = <<k - 1>>

\* C4: once all workers have joined, the counts in the slots add up to
\* numTrials, and so does total_count when the combining loop has ended.
C4_CountIsNumTrials ==
    /\ Joined => SumCounts(thread_results) = numTrials
    /\ pc \in {"finish", "done"} => total_count = numTrials

\* C4 witness: one worker ran ten trials in two passes and the engine returned
C4_Witness ==
    /\ pc = "done" /\ num_threads = 1 /\ numTrials = UNROLL + 2
    /\ total_count = UNROLL + 2

InvalidArgs ==
    \/ S0.v <= 0 \/ K.v <= 0 \/ sigma.v <= 0 \/ T.v <= 0
    \/ numTrials <= 0

\* C5: with S0, K, sigma, T or numTrials not positive the engine never gets past
\* its entry: it throws invalid_argument, no thread is ever created, and price,
\* lower and upper stay unwritten.
C5_InvalidRejected ==
    InvalidArgs =>
        /\ pc \in {"entry", "thrown"}
        /\ pc = "thrown" => error = "invalid_argument" /\ mpc = "failed"
        /\ threads = <<>>
        /\ price = Unset /\ lower = Unset /\ upper = Unset

\* C5 witness: the engine itself has thrown on T = 0 with everything else valid
C5_Witness ==
    /\ pc = "thrown" /\ error = "invalid_argument"
    /\ T.v = 0 /\ S0.v > 0 /\ K.v > 0 /\ sigma.v > 0 /\ numTrials > 0

\* C6: the worker count is at least 1 and at most numTrials, is
\* min(requested, numTrials) for a positive request, is the number of threads
\* created, and every created thread has a range of at least one trial.
C6_WorkersClamped ==
    pc \in {"launch", "join", "combine", "finish", "done"} =>
        /\ 1 <= num_threads /\ num_threads <= numTrials
        /\ req_threads > 0 => num_threads = Min(req_threads, numTrials)
        /\ Len(threads) <= num_threads
        /\ Launched => Len(threads) = num_threads
        /\ \A k \in 1 .. Len(threads) : RangeLen(threads[k]) >= 1

\* C6 witness: two workers requested for one trial, one launched
C6_Witness ==
    /\ Launched /\ req_threads = 2 /\ numTrials = 1 /\ Len(threads) = 1

\* C7: worker i gets floor(numTrials / w) + 1 trials when i < numTrials mod w and
\* floor(numTrials / w) otherwise, w being the effective worker count.
C7_FirstWorkersGetExtra ==
    \A k \in 1 .. Len(threads) :
        RangeLen(threads[k]) =
            (numTrials \div num_threads)
            + (IF k - 1 < numTrials % num_threads THEN 1 ELSE 0)

\* C7 witness: three trials over two workers, the first has two and the second one
C7_Witness ==
    /\ Launched /\ numTrials = 3 /\ Len(threads) = 2
    /\ RangeLen(threads[1]) = 2 /\ RangeLen(threads[2]) = 1

\* C8: the thread count main prints is the number of threads the engine created.
C8_ReportedIsSpawned ==
    mpc = "exit" => threadsUsed = Len(threads)

\* C9: the engine never returns a negative variance, a NaN standard deviation
\* or NaN bounds (the sums being finite).
C9_VarianceNeverNegative ==
    pc = "done" =>
        /\ ~(IsFin(variance) /\ variance.v < 0)
        /\ ~IsNaN(std_dev)
        /\ ~IsNaN(lower) /\ ~IsNaN(upper)

RECURSIVE CombineFrom(_, _)
CombineFrom(tot, rs) ==
    IF rs = <<>> THEN tot ELSE CombineFrom(AddResult(tot, Head(rs)), Tail(rs))

\* price and bounds the engine returns for the slot contents rs
PriceOf(rs, disc) ==
    LET e == Estimate(CombineFrom(ZeroResult, rs), disc)
    IN  <<e.price, e.lower, e.upper>>

Permuted(rs, p) == [k \in 1 .. Len(rs) |-> rs[p[k]]]

\* C11 as claimed: every permutation of the per-worker results gives the price
\* and bounds the engine returned.
C11_AnyOrderSameResult ==
    pc = "done" =>
        \A p \in Permutations(1 .. Len(thread_results)) :
            PriceOf(Permuted(thread_results, p), discount) = <<price, lower, upper>>

\* C11, amended: every permutation gives the same total count, and for at most
\* two per-worker results also the price and bounds the engine returned.
C11_TwoResultsAnyOrder ==
    pc = "done" =>
        \A p \in Permutations(1 .. Len(thread_results)) :
            /\ CombineFrom(ZeroResult, Permuted(thread_results, p)).count = total_count
            /\ Len(thread_results) <= 2 =>
                 PriceOf(Permuted(thread_results, p), discount) = <<price, lower, upper>>

\* C11 witness: two different results were combined and a price returned
C11_Witness ==
    /\ pc = "done" /\ Len(thread_results) = 2
    /\ thread_results[1] # thread_results[2]
    /\ thread_results[1].count > 0 /\ thread_results[2].count > 0
    /\ IsFin(price)
\* ------------------------------------------------------------------ seeds
Seeded(k) == threads[k].pc # "start"

\* C12: no two workers of one call construct their generator from the same seed,
\* whatever the clock reads when each of them starts.
C12_SeedsDistinct ==
    \A j, k \in 1 .. Len(threads) :
        (j # k /\ Seeded(j) /\ Seeded(k)) => threads[j].seed # threads[k].seed

\* ------------------------------------------------------------ termination
AllWorkersDone == \A k \in 1 .. Len(threads) : threads[k].pc = "done"

DrawAt(trial) == draws[(trial % Len(draws)) + 1]

\* acc after the payoffs of the trials from .. to - 1, one after the other
RECURSIVE FoldRange(_, _, _)
FoldRange(acc, from, to) ==
    IF from >= to THEN acc
    ELSE LET payoff == calculate_payoff(DrawAt(from), K, isCall)
         IN  FoldRange([sum |-> FAdd(acc.sum, payoff),
                        sum_squared |-> FAdd(acc.sum_squared, FMul(payoff, payoff))],
                       from + 1, to)

Running(t) == t.pc \in {"loop", "done"}

\* The worker's counters agree with its position, and its slot holds what the
\* worker published: nothing before, its count end - start after, written once.
WorkerAccounts(k) ==
    LET t == threads[k]
        slot == t.thread_id + 1
    IN  /\ Running(t) =>
              /\ t.start_trial <= t.i /\ t.i <= t.end_trial
              /\ t.local_count = t.i - t.start_trial
        /\ t.pc # "done" => writes[slot] = <<>> /\ thread_results[slot] = ZeroResult
        /\ t.pc = "done" =>
              /\ t.i = t.end_trial
              /\ writes[slot] = <<t.thread_id>>
              /\ thread_results[slot].count = t.end_trial - t.start_trial
              /\ thread_results[slot].sum = t.local_sum
              /\ thread_results[slot].sum_squared = t.local_sum_squared

\* A step of worker k in its loop folds the payoffs of the trial indices it
\* passes, each once and in order, into the running sums.
WorkerFolds(k) ==
    LET t == threads[k]
        u == threads'[k]
    IN  (t.pc = "loop" /\ u.pc = "loop") =>
            /\ u.i >= t.i
            /\ [sum |-> u.local_sum, sum_squared |-> u.local_sum_squared]
                 = FoldRange([sum |-> t.local_sum, sum_squared |-> t.local_sum_squared],
                             t.i, u.i)

\* C14: a worker handed [start, end) folds exactly one payoff per trial index of
\* the range into its sums and publishes exactly one result, whose count is
\* end - start, whatever the length is relative to the unroll width 8 and the
\* buffer size 4096.
C14_WorkerCoversRange ==
    /\ [](\A k \in 1 .. Len(threads) : WorkerAccounts(k))
    /\ [][\A k \in 1 .. Len(threads) : WorkerFolds(k)]_vars

C14_Witness ==
    \E k \in 1 .. Len(threads) :
        /\ threads[k].pc = "done"
        /\ RangeLen(threads[k]) > RANDOM_BATCH_SIZE
        /\ RangeLen(threads[k]) % UNROLL # 0
        /\ thread_results[k].count = RangeLen(threads[k])

\* ------------------------------------------------- one worker or several
\* every trial of the call has its own fixed terminal price
FullyFixed == draws # <<>> /\ Len(draws) = numTrials

\* the totals of the call when a single worker runs all the trials
OneWorkerTotals == CombineFrom(ZeroResult, <<ResultOf(draws, K, isCall)>>)

Totals == [sum |-> total_sum, sum_squared |-> total_sum_squared, count |-> total_count]

\* C15 as claimed: with numTrials and the payoff of every trial fixed, the
\* totals, and so the price and its bounds, are the same whether one worker runs
\* all the trials or they are split over several workers.
C15_SplitSameTotals ==
    (pc = "done" /\ FullyFixed) =>
        /\ Totals = OneWorkerTotals
        /\ <<price, lower, upper>> = PriceOf(<<ResultOf(draws, K, isCall)>>, discount)

\* C15, amended: total_count is the same however the trials are split; the two
\* sums, the price and the bounds are those of the single worker when the call
\* runs one worker (with several they are the same additions grouped by worker,
\* and can round differently).
C15_SplitSameCount ==
    (pc = "done" /\ FullyFixed) =>
        /\ total_count = OneWorkerTotals.count
        /\ num_threads = 1 =>
              /\ Totals = OneWorkerTotals
              /\ <<price, lower, upper>>
                   = PriceOf(<<ResultOf(draws, K, isCall)>>, discount)

C15_Witness ==
    /\ pc = "done" /\ FullyFixed
    /\ num_threads >= 2 /\ numTrials > num_threads
    /\ \E j \in 1 .. Len(draws) : draws[j] # draws[1]
    /\ Totals = OneWorkerTotals

\* ------------------------------------------------------ the worker count
CountChosen == pc \in {"launch", "join", "combine", "finish", "done"}

\* C16: a request of 0 workers is replaced by the hardware parallelism, or by
\* the fallback 4 when that is reported as 0, and the result is clamped to
\* numTrials; a positive request is only clamped, the hardware parallelism is
\* not even asked for.
C16_AutoDetectOnlyForZero ==
    CountChosen =>
        /\ req_threads = 0 =>
              /\ hardware_concurrency >= 0
              /\ num_threads =
                    Min(IF hardware_concurrency = 0 THEN FALLBACK_THREADS
                        ELSE hardware_concurrency, numTrials)
        /\ req_threads > 0 =>
              /\ hardware_concurrency = -1
              /\ num_threads = Min(req_threads, numTrials)
        /\ Launched => Len(threads) = num_threads

C16_Witness ==
    /\ Launched
    /\ req_threads = 0 /\ hardware_concurrency = 0
    /\ Len(threads) = FALLBACK_THREADS

\* ------------------------------------------------------ the random buffer
\* Between passes the index is inside 0 .. RANDOM_BATCH_SIZE, and a worker with
\* trials left stands at the start of a group of UNROLL entries.
IndexAligned(k) ==
    LET t == threads[k]
    IN  t.pc = "loop" =>
            /\ 0 <= t.random_index /\ t.random_index <= RANDOM_BATCH_SIZE
            /\ t.i < t.end_trial => t.random_index % UNROLL = 0

\* A pass of n trials reads the n entries first .. first + n - 1, first being 0
\* after a refill and the index left by the previous pass otherwise: all of them
\* inside the buffer, one entry per trial, none read before since the refill.
PassReadsFresh(k) ==
    LET t == threads[k]
        u == threads'[k]
        first == IF t.random_index >= RANDOM_BATCH_SIZE THEN 0 ELSE t.random_index
        n == u.i - t.i
    IN  (t.pc = "loop" /\ u.pc = "loop" /\ u # t) =>
            /\ n >= 1
            /\ 0 <= first /\ first + n - 1 < RANDOM_BATCH_SIZE
            /\ u.random_index = first + n

\* C17: every read random_numbers[random_index] has 0 <= random_index <
\* RANDOM_BATCH_SIZE, and between two refills no entry serves more than one
\* trial, although the refill test runs once per group of up to 8 trials.
C17_ReadsInsideBuffer ==
    /\ [](\A k \in 1 .. Len(threads) : IndexAligned(k))
    /\ [][\A k \in 1 .. Len(threads) : PassReadsFresh(k)]_vars

C17_Witness ==
    \E k \in 1 .. Len(threads) :
        /\ threads[k].pc = "done"
        /\ threads[k].local_count = RANDOM_BATCH_SIZE + UNROLL + 3
        /\ threads[k].random_index = UNROLL + 3

\* ------------------------------------------------------------ int range
\* C18: for every numTrials in 1 .. INT_MAX and every worker count, neither
\* start_trial + thread_trials (line 273) nor i + 8 (line 246) exceeds the range
\* of int when it is computed.
C18_NoIntOverflow ==
    /\ (pc = "launch" /\ li < num_threads) =>
          start_trial + ThreadTrials(li, trials_per_thread, remaining_trials) <= INT_MAX
    /\ \A k \in 1 .. Len(threads) :
          (threads[k].pc = "loop" /\ threads[k].i < threads[k].end_trial) =>
              threads[k].i + UNROLL <= INT_MAX

====
